---- MODULE Spec2Model ----
(***************************************************************************)
(* Resource lifecycle of the Genesys Cloud Terraform provider: the CRUD    *)
(* handlers of the routing queue, journey action map and journey segment   *)
(* resources, the retry loops they run their remote reads in, and the      *)
(* queue membership reconciliation.  One controller works on one remote    *)
(* object; every remote call is one step.                                  *)
(***************************************************************************)
EXTENDS Integers, Sequences, FiniteSets, TLC

\* ------------------------------------------------------------------ bounds
MaxRing == 2            \* ring numbers 1..MaxRing are configured (source allows 1..6)
MaxVersion == 4         \* remote version stamps stay within 1..MaxVersion
MaxUpdateAttempts == 3  \* get/patch attempts one retryWhen run may make
PollInterval == 10      \* seconds between two attempts of a retry loop
QueueDeleteTimeout == 30 \* d.Timeout(schema.TimeoutDelete) of the queue, in seconds
MaxChunkMembers == 250  \* longest member list handed to updateMembersInChunks alone
MaxEntities == 350      \* most remote objects a paginated listing enumerates
MaxPages == 6           \* page requests one listing may make
MaxChecks == 2          \* CheckState calls made on one Desired/Observed pair
MaxDataEntities == 3    \* most entities the collection a data source searches holds
DataPageLen == 2        \* entities the backend puts on one page of that collection
MaxOtherActs == 1       \* membership changes another actor makes during one reconciliation

\* ------------------------------------------------------- program constants
maxBatchSize == 100          \* routing_queue.go:884
DeleteTimeout == 30          \* journey_action_map.go:470, part_002:366
DefaultRingNum == 1          \* routing_queue.go:64, 870
pageSize == 100              \* journey_action_map.go:348, part_002:255, routing_queue.go:919
DataSourceTimeout == 15      \* routing_queue.go:1025
\* deadline of withRetriesForRead, in seconds: shorter than the delete deadline
ReadTimeout == 20

Resources == {"queue", "actionMap", "segment"}
Users == {"u1", "u2", "u3"}
UserOrder == <<"u1", "u2", "u3">>
RemoteId == "id1"
AttrVals == {"a", "b"}
NoValue == "unset"

VARIABLES
    res,            \* the resource type this controller manages
    cfgScope,       \* what the configurations of this run vary: "attributes" or "members"
    op,             \* the running lifecycle operation, "idle" between operations
    pc,             \* position inside the operation
    id,             \* d.Id(): the locally stored identifier, "" when none
    attr,           \* d's optional attribute (description), NoValue when unset
    dMembers,       \* d's "members" attribute: user -> ring number, 0 = not a member
    cfgMembersSet,  \* whether the configuration declares the members attribute
    divChanged,     \* d.HasChange("division_id") of the running update
    result,         \* what the operation returned: "none", "ok" or "error"
    err,            \* the reason carried by the returned error
    lastDisp,       \* disposition of the last attempt of the running retry loop
    elapsed,        \* seconds spent in the running retry loop
    lastGet,        \* response of the last get of the running operation
    sawGone,        \* some confirmation read of the running delete saw 404/inactive
    ccSnap,         \* Desired State snapshot held by the consistency checker
    remote,         \* the remote object: "absent", "active" or "inactive"
    view,           \* what a get currently observes of remote (eventually consistent)
    rattr,          \* the remote object's attribute
    rview,          \* the attribute value a get currently observes
    version,        \* the remote object's version stamp
    rmembers,       \* remote queue members: user -> ring number, 0 = not a member
    oldMembers,     \* members listed at the start of the running reconciliation
    gotVersion,     \* version returned by the get of the running update attempt
    attempt,        \* number of the running update attempt
    patchVersion,   \* patchActionMap.Version, the version the next patch carries
    calls,          \* remote calls issued by the running operation, in order
    sharedLoopVar,  \* the build gives a range loop one variable for all iterations
    emptySetOk,     \* the build's GetOk reports an empty set that exists as set
    chunkIn,        \* member list handed to updateMembersInChunks alone
    pageNum,        \* pageNum of the running listing loop
    pageCount,      \* pageCount of getAllJourneyActionMaps
    listed,         \* what the running listing has collected so far
    total,          \* number of remote objects the listed collection holds
    pastEnd,        \* what the backend answers for a page past the last: "empty" or "repeat"
    prior,          \* d's identifier and attribute when the running Create/Update was called
    ccDesired,      \* Desired State snapshot of a consistency checker: attribute -> value
    ccObserved,     \* Observed State it is compared with: attribute -> value
    ccRuns,         \* the CheckState calls made on them: what each saw and returned
    dsEntities,     \* the collection a data source searches: entities in listing order
    dsVisible,      \* whether the listing endpoint shows the collection yet
    otherActs       \* what another actor did to the queue's members, and at which step

vars == <<res, cfgScope, op, pc, id, attr, dMembers, cfgMembersSet, divChanged, result, err,
          lastDisp, elapsed, lastGet, sawGone, ccSnap, remote, view, rattr, rview,
          version, rmembers, oldMembers, gotVersion, attempt, patchVersion, calls,
          sharedLoopVar, emptySetOk,
          chunkIn, pageNum, pageCount, listed, total, pastEnd, prior,
          ccDesired, ccObserved, ccRuns, dsEntities, dsVisible, otherActs>>

\* what one run fixes: the resource type, the scope of its configurations, the build
runVars == <<res, cfgScope, sharedLoopVar, emptySetOk>>
localVars == <<id, attr, dMembers, cfgMembersSet, divChanged>>
retryVars == <<lastDisp, elapsed>>
remoteVars == <<remote, view, rattr, rview, version, rmembers>>
updateVars == <<gotVersion, attempt, patchVersion>>
listVars == <<pageNum, pageCount, listed, total, pastEnd>>
checkVars == <<ccDesired, ccObserved, ccRuns>>
dataVars == <<dsEntities, dsVisible>>

\* ----------------------------------------------------------------- helpers
NoMembers == [u \in Users |-> 0]
NoPrior == [id |-> "", attr |-> NoValue]
AttrNames == {"description", "color", "scope"}
NoAttrs == [k \in AttrNames |-> NoValue]
MemberMaps == [Users -> 0..MaxRing]
MemberSet(m) == {u \in Users : m[u] # 0}

RECURSIVE SeqOfSet(_, _)
\* the members of s in the order of the sequence order
SeqOfSet(order, s) ==
    IF order = <<>> THEN <<>>
    ELSE IF Head(order) \in s THEN <<Head(order)>> \o SeqOfSet(Tail(order), s)
    ELSE SeqOfSet(Tail(order), s)

Range(s) == {s[i] : i \in 1..Len(s)}
Min(a, b) == IF a < b THEN a ELSE b

\* ------------------------------------------------------------ retry engine
Success == [kind |-> "success", reason |-> "none"]
RetryableError(reason) == [kind |-> "retryable", reason |-> reason]
NonRetryableError(reason) == [kind |-> "nonretryable", reason |-> reason]

\* One turn of the retry loop after an attempt made at time t returned outcome:
\* success and terminal failures end the loop at once; a retryable failure sleeps
\* one interval and ends the loop with the last reason once the deadline is reached.
RetryContext(outcome, t, timeout) ==
    CASE outcome.kind = "success" ->
            [pc |-> "done", result |-> "ok", err |-> "none", elapsed |-> t]
      [] outcome.kind = "nonretryable" ->
            [pc |-> "done", result |-> "error", err |-> outcome.reason, elapsed |-> t]
      [] OTHER ->
            IF t + PollInterval < timeout
            THEN [pc |-> "retry", result |-> "none", err |-> "none",
                  elapsed |-> t + PollInterval]
            ELSE [pc |-> "done", result |-> "error", err |-> outcome.reason,
                  elapsed |-> t + PollInterval]

isStatus404(resp) == resp = "404"
isVersionMismatch(resp) == resp = "409"

\* ------------------------------------------------------------ remote reads
\* What a get answers: the eventually-consistent view of the object, or a
\* transport error.
ViewResp == CASE view = "absent" -> "404"
              [] view = "active" -> "found"
              [] OTHER -> "inactive"
GetResps == {ViewResp, "500"}
IsObject(resp) == resp \in {"found", "inactive"}

\* --------------------------------------------------- delete confirmation polls
\* faulty variant: a 404 answer is reported as an error
deleteQueuePollMut(resp) ==
    IF ~IsObject(resp)
    THEN NonRetryableError(resp)
    ELSE RetryableError("exists")

deleteQueuePoll(resp) ==
    IF ~IsObject(resp)
    THEN IF resp = "404" THEN Success ELSE NonRetryableError(resp)
    ELSE RetryableError("exists")

\* faulty variant: "still exists" is a terminal error
deleteJourneyActionMapPollMut(resp) ==
    IF ~IsObject(resp)
    THEN IF isStatus404(resp) THEN Success ELSE NonRetryableError(resp)
    ELSE NonRetryableError("exists")

deleteJourneyActionMapPoll(resp) ==
    IF ~IsObject(resp)
    THEN IF isStatus404(resp) THEN Success ELSE NonRetryableError(resp)
    ELSE RetryableError("exists")

\* faulty variant: any object read back, active or not, counts as deleted
deleteJourneySegmentPollMut(resp) ==
    IF ~IsObject(resp)
    THEN IF isStatus404(resp) THEN Success ELSE NonRetryableError(resp)
    ELSE Success

deleteJourneySegmentPoll(resp) ==
    IF ~IsObject(resp)
    THEN IF isStatus404(resp) THEN Success ELSE NonRetryableError(resp)
    ELSE IF resp = "inactive" THEN Success
    ELSE RetryableError("exists")

DeletePoll(r, resp) ==
    CASE r = "queue" -> deleteQueuePoll(resp)
      [] r = "actionMap" -> deleteJourneyActionMapPoll(resp)
      [] OTHER -> deleteJourneySegmentPoll(resp)

\* faulty variant: the read deadline is passed to the delete loop
DeleteDeadlineMut(r) == ReadTimeout

DeleteDeadline(r) == IF r = "queue" THEN QueueDeleteTimeout ELSE DeleteTimeout

\* ------------------------------------------------------ consistency checker
\* faulty variant: an unset attribute is compared like a configured one
CheckStateMut(desired, observed) ==
    IF desired = observed
    THEN Success
    ELSE RetryableError("mismatch")

\* CheckState: an attribute unset in the Desired snapshot is not compared; a
\* configured attribute that the observed state contradicts is a retryable failure.
CheckState(desired, observed) ==
    IF desired = NoValue \/ desired = observed
    THEN Success
    ELSE RetryableError("mismatch")

\* CheckState over the attributes in ks of a resource with several: the first
\* configured attribute that the observed state contradicts fails the check
CheckStateOver(ks, desired, observed) ==
    IF \A k \in ks : CheckState(desired[k], observed[k]).kind = "success"
    THEN Success
    ELSE RetryableError("mismatch")

\* faulty variant: a check adopts what it observed as the new Desired snapshot
DesiredAfterCheckMut(desired, observed) == observed

\* the Desired snapshot a checker holds after a CheckState call
DesiredAfterCheck(desired, observed) == desired

\* -------------------------------------------------------------- read closures
\* faulty variant: every read error is worth another attempt
readJourneyActionMapErrMut(resp) == RetryableError(resp)

\* The error branch of the closure run by readJourneyActionMap / readJourneySegment.
readJourneyActionMapErr(resp) ==
    IF isStatus404(resp) THEN RetryableError(resp) ELSE NonRetryableError(resp)

readJourneySegmentErr(resp) ==
    IF isStatus404(resp) THEN RetryableError(resp) ELSE NonRetryableError(resp)

ReadErr(r, resp) ==
    IF r = "actionMap" THEN readJourneyActionMapErr(resp) ELSE readJourneySegmentErr(resp)

\* faulty variant: the closure returns nil whatever the check says
ReadVerdictMut(desired, observed) == Success

\* return cc.CheckState(): the attempt's outcome is the consistency check's verdict
ReadVerdict(desired, observed) == CheckState(desired, observed)

\* ------------------------------------------------- membership reconciliation
\* d.GetOk("members"): the attribute exists (configured, or held by the prior
\* state an update starts from) and is not the zero value; whether an empty set
\* counts as the zero value is the build's
GetOkMembers(m, exists, emptyOk) == exists /\ (MemberSet(m) # {} \/ emptyOk)

sliceDifference(a, b) == SelectSeq(a, LAMBDA x : x \notin Range(b))

\* The Writableentity list built from one chunk: every entry holds &id, the
\* address of the range variable, so with one variable per loop every entry
\* reads the chunk's last id at the time of the call.
UpdateChunk(chunk, shared) ==
    IF shared THEN [i \in 1..Len(chunk) |-> chunk[Len(chunk)]] ELSE chunk

RECURSIVE ChunksFrom(_, _, _)
\* the payloads updateMembersInChunks posts for membersToUpdate[i:], i 0-based
ChunksFrom(membersToUpdate, i, shared) ==
    IF i >= Len(membersToUpdate) THEN <<>>
    ELSE LET end == Min(i + maxBatchSize, Len(membersToUpdate))
             updateChunk == UpdateChunk(SubSeq(membersToUpdate, i + 1, end), shared)
         IN  (IF Len(updateChunk) > 0 THEN <<updateChunk>> ELSE <<>>)
             \o ChunksFrom(membersToUpdate, i + maxBatchSize, shared)

updateMembersInChunks(membersToUpdate, shared) == ChunksFrom(membersToUpdate, 0, shared)

\* PostRoutingQueueMembers on the remote member set: the listed users leave, or
\* join with the default ring number unless they are members already.
PostRoutingQueueMembers(m, ids, remove) ==
    [u \in Users |->
        IF u \in Range(ids)
        THEN IF remove THEN 0 ELSE IF m[u] = 0 THEN DefaultRingNum ELSE m[u]
        ELSE m[u]]

RECURSIVE ApplyChunks(_, _, _)
ApplyChunks(m, chunks, remove) ==
    IF chunks = <<>> THEN m
    ELSE ApplyChunks(PostRoutingQueueMembers(m, Head(chunks), remove), Tail(chunks), remove)

ChunkCalls(chunks, remove, resp) ==
    [i \in 1..Len(chunks) |->
        [api |-> IF remove THEN "removeMembers" ELSE "addMembers",
         ids |-> chunks[i], resp |-> resp, ver |-> 0, got |-> 0]]

\* faulty variant: a new member is patched whatever its ring number
RingUpdatesMut(new, old) == {u \in MemberSet(new) : new[u] # old[u]}

\* the configured members whose ring number updateQueueMembers patches
RingUpdates(new, old) ==
    {u \in MemberSet(new) :
        IF old[u] # 0 THEN new[u] # old[u] ELSE new[u] # DefaultRingNum}

Call(api, ids, resp) == [api |-> api, ids |-> ids, resp |-> resp, ver |-> 0, got |-> 0]
Patched == {calls[i].ids[1] : i \in {j \in 1..Len(calls) : calls[j].api = "patchMember"}}

\* ------------------------------------------------------------------- state
Init ==
    /\ res \in Resources
    /\ cfgScope \in (IF res = "queue" THEN {"attributes", "members"} ELSE {"attributes"})
    /\ op = "idle" /\ pc = "idle"
    /\ id = "" /\ attr = NoValue /\ dMembers = NoMembers
    /\ cfgMembersSet = FALSE /\ divChanged = FALSE
    /\ result = "none" /\ err = "none"
    /\ lastDisp = "none" /\ elapsed = 0 /\ lastGet = "none" /\ sawGone = FALSE
    /\ ccSnap = "none"
    /\ remote = "absent" /\ view = "absent" /\ rattr = NoValue /\ rview = NoValue
    /\ version = 0 /\ rmembers = NoMembers /\ oldMembers = NoMembers
    /\ gotVersion = 0 /\ attempt = 0 /\ patchVersion = 0
    /\ calls = <<>>
    /\ sharedLoopVar \in (IF cfgScope = "members" THEN BOOLEAN ELSE {FALSE})
    /\ emptySetOk \in (IF cfgScope = "members" THEN BOOLEAN ELSE {FALSE})
    /\ chunkIn = <<>>
    /\ pageNum = 0 /\ pageCount = 0 /\ listed = {} /\ total = 0 /\ pastEnd = "empty"
    /\ prior = NoPrior
    /\ otherActs = <<>>
    /\ dsEntities = <<>> /\ dsVisible = TRUE
    /\ ccDesired = NoAttrs /\ ccObserved = NoAttrs /\ ccRuns = <<>>

Idle == pc = "idle"

\* an operation starts: nothing of the previous one is left
Begin(o, p) ==
    /\ op' = o /\ pc' = p
    /\ UNCHANGED <<runVars, otherActs, dataVars, checkVars, listVars, result, err, retryVars, lastGet, sawGone, ccSnap,
                   oldMembers, updateVars, calls, chunkIn, remoteVars>>

\* the operation has returned: its locals (retry context, call record) are dropped
Finish ==
    /\ pc = "done"
    /\ op' = "idle" /\ pc' = "idle"
    /\ result' = "none" /\ err' = "none"
    /\ lastDisp' = "none" /\ elapsed' = 0 /\ lastGet' = "none" /\ sawGone' = FALSE
    /\ ccSnap' = "none" /\ oldMembers' = NoMembers
    /\ gotVersion' = 0 /\ attempt' = 0 /\ patchVersion' = 0
    /\ calls' = <<>>
    /\ divChanged' = FALSE /\ cfgMembersSet' = FALSE
    /\ prior' = NoPrior
    /\ UNCHANGED <<runVars, otherActs, dataVars, checkVars, listVars, id, attr, dMembers, chunkIn, remoteVars>>

Return(r, e) == /\ pc' = "done" /\ result' = r /\ err' = e

\* the configurations a run draws from: a run varies the attribute or the members
CfgMembers == IF cfgScope = "members" THEN MemberMaps ELSE {NoMembers}
CfgSet == IF cfgScope = "members" THEN BOOLEAN ELSE {FALSE}
CfgAttrs == IF cfgScope = "attributes" THEN AttrVals \cup {NoValue} ELSE {NoValue}
CfgDivChanged == IF res = "queue" /\ cfgScope = "attributes" THEN BOOLEAN ELSE {FALSE}

\* ------------------------------------------------------------------ Create
StartCreate ==
    /\ Idle /\ id = ""
    /\ \E a \in CfgAttrs, m \in CfgMembers, set \in CfgSet :
          /\ attr' = a
          /\ cfgMembersSet' = set
          /\ dMembers' = IF set THEN m ELSE NoMembers
    /\ divChanged' = FALSE
    /\ prior' = [id |-> id, attr |-> attr]
    /\ Begin("create", "post")
    /\ UNCHANGED id

\* faulty variant: the identifier stored is one made up locally
SetIdMut(v) == "local"

\* d.SetId(v)
SetId(v) == v

\* faulty variant: the create call's error is not read
createErrMut(resp) == FALSE

\* err != nil after PostRoutingQueues / PostJourneyActionmaps / PostJourneySegments
createErr(resp) == resp # "ok"

\* createQueue / createJourneyActionMap / createJourneySegment up to d.SetId
CreatePost ==
    /\ op = "create" /\ pc = "post"
    /\ \E resp \in {"ok", "500"} :
          /\ calls' = Append(calls, Call("post", <<>>, resp))
          /\ IF createErr(resp)
             THEN /\ Return("error", resp)
                  /\ UNCHANGED <<id, remoteVars>>
             ELSE /\ id' = SetId(RemoteId)
                  /\ remote' = "active" /\ view' = "absent"
                  /\ rattr' = attr /\ rview' = attr
                  /\ version' = 1 /\ rmembers' = NoMembers
                  /\ pc' = IF res = "queue" THEN "members" ELSE "read"
                  /\ UNCHANGED <<result, err>>
    /\ UNCHANGED <<runVars, otherActs, dataVars, checkVars, prior, listVars, op, attr, dMembers, cfgMembersSet, divChanged, retryVars, lastGet,
                   sawGone, ccSnap, oldMembers, updateVars, chunkIn>>

\* -------------------------------------------------------------------- Read
StartRead ==
    /\ Idle /\ id # ""
    /\ Begin("read", "read")
    /\ UNCHANGED <<localVars, prior>>

\* readQueue: one get, no retry loop, then the member listing of flattenQueueMembers
readQueue ==
    /\ res = "queue" /\ pc = "read"
    /\ \E resp \in GetResps, mresp \in {"ok", "500"} :
          /\ lastGet' = resp
          /\ IF resp # "found"
             THEN /\ Return("error", resp)
                  /\ calls' = Append(calls, Call("get", <<>>, resp))
                  /\ UNCHANGED <<attr, dMembers>>
             ELSE /\ attr' = IF rview # NoValue THEN rview ELSE attr
                  /\ calls' = calls \o <<Call("get", <<>>, resp),
                                         Call("listMembers", <<>>, mresp)>>
                  /\ IF mresp # "ok"
                     THEN Return("error", mresp) /\ UNCHANGED dMembers
                     ELSE Return("ok", "none") /\ dMembers' = rmembers
    /\ UNCHANGED <<runVars, otherActs, dataVars, checkVars, prior, listVars, op, id, cfgMembersSet, divChanged, retryVars, sawGone, ccSnap,
                   remoteVars, oldMembers, updateVars, chunkIn>>

\* faulty variant: the IsActive flag is not looked at
IsInactiveMut(r, resp) == FALSE

\* journeySegment.IsActive != nil && !*journeySegment.IsActive, a test that only
\* readJourneySegment makes
IsInactive(r, resp) == r = "segment" /\ resp = "inactive"

\* one attempt of the closure readJourneyActionMap / readJourneySegment hands to
\* withRetriesForRead, and the retry engine's turn after it
ReadAttempt ==
    /\ res # "queue" /\ pc = "read"
    /\ \E resp \in GetResps :
          LET inactive == IsInactive(res, resp)
              flatten  == IsObject(resp) /\ ~inactive
              snap     == IF ccSnap = "none" THEN attr ELSE ccSnap
              outcome  == IF ~IsObject(resp) THEN ReadErr(res, resp)
                          ELSE IF inactive THEN Success
                          ELSE ReadVerdict(snap, rview)
              turn     == RetryContext(outcome, elapsed, ReadTimeout)
          IN  /\ lastGet' = resp
              /\ calls' = Append(calls, Call("get", <<>>, resp))
              /\ id' = IF inactive THEN SetId("") ELSE id
              /\ ccSnap' = IF flatten THEN snap ELSE ccSnap
              /\ attr' = IF flatten THEN rview ELSE attr
              /\ lastDisp' = outcome.kind
              /\ elapsed' = turn.elapsed
              /\ pc' = IF turn.pc = "retry" THEN "read" ELSE "done"
              /\ result' = turn.result /\ err' = turn.err
    /\ UNCHANGED <<runVars, otherActs, dataVars, checkVars, prior, listVars, op, dMembers, cfgMembersSet, divChanged, sawGone, remoteVars,
                   oldMembers, updateVars, chunkIn>>

\* ------------------------------------------------ updateQueueMembers (queue)
\* faulty variant: additions are issued before removals
MemberStepsMut == <<"m_add", "m_remove", "m_ring">>

\* the order in which updateQueueMembers issues its calls after the listing
MemberSteps == <<"m_remove", "m_add", "m_ring">>

AfterMemberStep(p) ==
    LET i == CHOOSE k \in 1..Len(MemberSteps) : MemberSteps[k] = p
    IN  IF i = Len(MemberSteps) THEN "read" ELSE MemberSteps[i + 1]

\* faulty variant: the members are listed anew for every batch
oldUserIdsMut == SeqOfSet(UserOrder, MemberSet(rmembers))

\* the ids of the members the listing returned
oldUserIds == SeqOfSet(UserOrder, MemberSet(oldMembers))
newUserIds == SeqOfSet(UserOrder, MemberSet(dMembers))

\* what updateMembersInChunks returns after a batch call answered resp: the
\* call's error is not read
updateMembersInChunksErr(resp) == "none"

\* faulty variant: the caller goes on to its final read after a failed reconciliation
AfterMembersErrorMut == "read"

\* diagErr := updateQueueMembers(d); if diagErr != nil { return diagErr }
AfterMembersError == "done"

\* members not set (or empty): return nil; otherwise list the remote members
MembersList ==
    /\ res = "queue" /\ pc = "members"
    /\ IF ~GetOkMembers(dMembers, cfgMembersSet \/ op = "update", emptySetOk)
       THEN /\ pc' = "read"
            /\ UNCHANGED <<result, err, calls, oldMembers>>
       ELSE \E resp \in {"ok", "500"} :
               /\ calls' = Append(calls, Call("listMembers", <<>>, resp))
               /\ IF resp # "ok"
                  THEN /\ pc' = AfterMembersError /\ result' = "error" /\ err' = resp
                       /\ UNCHANGED oldMembers
                  ELSE /\ oldMembers' = rmembers
                       /\ pc' = MemberSteps[1]
                       /\ UNCHANGED <<result, err>>
    /\ UNCHANGED <<runVars, otherActs, dataVars, checkVars, prior, listVars, op, localVars, retryVars, lastGet, sawGone, ccSnap, remoteVars,
                   updateVars, chunkIn>>

\* one run of updateMembersInChunks over the members to remove or to add
MembersBatch(remove) ==
    LET todo   == IF remove THEN sliceDifference(oldUserIds, newUserIds)
                  ELSE sliceDifference(newUserIds, oldUserIds)
        run    == IF remove THEN Len(oldUserIds) > 0 ELSE Len(newUserIds) > 0
        chunks == IF run THEN updateMembersInChunks(todo, sharedLoopVar) ELSE <<>>
    IN  \E resp \in (IF chunks = <<>> THEN {"ok"} ELSE {"ok", "500"}) :
           /\ calls' = calls \o ChunkCalls(chunks, remove, resp)
           /\ rmembers' = IF resp = "ok" THEN ApplyChunks(rmembers, chunks, remove)
                          ELSE rmembers
           /\ IF updateMembersInChunksErr(resp) # "none"
              THEN Return("error", updateMembersInChunksErr(resp))
              ELSE /\ pc' = AfterMemberStep(pc)
                   /\ UNCHANGED <<result, err>>

MembersRemove ==
    /\ res = "queue" /\ pc = "m_remove"
    /\ MembersBatch(TRUE)
    /\ UNCHANGED <<runVars, otherActs, dataVars, checkVars, prior, listVars, op, localVars, retryVars, lastGet, sawGone, ccSnap, remote, view,
                   rattr, rview, version, oldMembers, updateVars, chunkIn>>

MembersAdd ==
    /\ res = "queue" /\ pc = "m_add"
    /\ MembersBatch(FALSE)
    /\ UNCHANGED <<runVars, otherActs, dataVars, checkVars, prior, listVars, op, localVars, retryVars, lastGet, sawGone, ccSnap, remote, view,
                   rattr, rview, version, oldMembers, updateVars, chunkIn>>

\* the ring-number loop: one updateQueueUserRingNum per step, in map order
MembersRing ==
    /\ res = "queue" /\ pc = "m_ring"
    /\ LET todo == RingUpdates(dMembers, oldMembers) \ Patched
       IN  IF todo = {}
           THEN /\ pc' = AfterMemberStep(pc)
                /\ UNCHANGED <<result, err, calls, rmembers>>
           ELSE \E u \in todo :
                \E resp \in (IF rmembers[u] # 0 THEN {"ok", "500"} ELSE {"404"}) :
                   /\ calls' = Append(calls, Call("patchMember", <<u>>, resp))
                   /\ IF resp # "ok"
                      THEN /\ pc' = AfterMembersError /\ result' = "error" /\ err' = resp
                           /\ UNCHANGED rmembers
                      ELSE /\ rmembers' = [rmembers EXCEPT ![u] = dMembers[u]]
                           /\ UNCHANGED <<pc, result, err>>
    /\ UNCHANGED <<runVars, otherActs, dataVars, checkVars, prior, listVars, op, localVars, retryVars, lastGet, sawGone, ccSnap, remote, view,
                   rattr, rview, version, oldMembers, updateVars, chunkIn>>

\* ------------------------------------------------------------------ Update
StartUpdate ==
    /\ Idle /\ id # ""
    /\ res = "actionMap" => version < MaxVersion
    /\ \E a \in CfgAttrs, m \in CfgMembers, set \in CfgSet,
          dc \in CfgDivChanged :
          /\ attr' = a
          /\ cfgMembersSet' = set
          /\ dMembers' = IF set THEN m ELSE dMembers
          /\ divChanged' = dc
    /\ Begin("update", CASE res = "queue" -> "put"
                         [] res = "actionMap" -> "get"
                         [] OTHER -> "patch")
    /\ prior' = [id |-> id, attr |-> attr]
    /\ UNCHANGED id

WriteResps == IF remote = "active" THEN {"ok", "500"} ELSE {"404", "500"}

\* faulty variant: the division move is made on every update
AfterPutMut(changed) == "division"

\* if d.HasChange("division_id") { ... } after PutRoutingQueue succeeded
AfterPut(changed) == IF changed THEN "division" ELSE "members"

\* updateQueue: PutRoutingQueue
updateQueuePut ==
    /\ res = "queue" /\ op = "update" /\ pc = "put"
    /\ \E resp \in WriteResps :
          /\ calls' = Append(calls, Call("put", <<>>, resp))
          /\ IF resp # "ok"
             THEN Return("error", resp) /\ UNCHANGED rattr
             ELSE /\ rattr' = attr
                  /\ pc' = AfterPut(divChanged)
                  /\ UNCHANGED <<result, err>>
    /\ UNCHANGED <<runVars, otherActs, dataVars, checkVars, prior, listVars, op, localVars, retryVars, lastGet, sawGone, ccSnap, remote, view,
                   rview, version, rmembers, oldMembers, updateVars,
                   chunkIn>>

\* updateQueue: the division move made when division_id changed
updateQueueDivision ==
    /\ res = "queue" /\ op = "update" /\ pc = "division"
    /\ \E resp \in {"ok", "500"} :
          /\ calls' = Append(calls, Call("division", <<>>, resp))
          /\ IF resp # "ok"
             THEN Return("error", resp)
             ELSE pc' = "members" /\ UNCHANGED <<result, err>>
    /\ UNCHANGED <<runVars, otherActs, dataVars, checkVars, prior, listVars, op, localVars, retryVars, lastGet, sawGone, ccSnap, remoteVars,
                   oldMembers, updateVars, chunkIn>>

\* updateJourneySegment: PatchJourneySegment, no version read
updateJourneySegmentPatch ==
    /\ res = "segment" /\ op = "update" /\ pc = "patch"
    /\ \E resp \in WriteResps :
          /\ calls' = Append(calls, Call("patch", <<>>, resp))
          /\ IF resp # "ok"
             THEN Return("error", resp) /\ UNCHANGED rattr
             ELSE /\ rattr' = attr
                  /\ pc' = "read"
                  /\ UNCHANGED <<result, err>>
    /\ UNCHANGED <<runVars, otherActs, dataVars, checkVars, prior, listVars, op, localVars, retryVars, lastGet, sawGone, ccSnap, remote, view,
                   rview, version, rmembers, oldMembers, updateVars,
                   chunkIn>>

\* faulty variant: the version is assigned in the first attempt only
SetPatchVersionMut(got, prev) == IF prev = 0 THEN got ELSE prev

\* patchActionMap.Version = actionMap.Version: got is the version the get of this
\* attempt returned, prev the one the struct held
SetPatchVersion(got, prev) == got

\* retryWhen(isVersionMismatch, ...): whether a failed attempt is made again
retryWhen(resp, n) == isVersionMismatch(resp) /\ n < MaxUpdateAttempts

\* updateJourneyActionMap: the get that opens an attempt
updateJourneyActionMapGet ==
    /\ res = "actionMap" /\ op = "update" /\ pc = "get"
    /\ \E resp \in GetResps :
          /\ lastGet' = resp
          /\ calls' = Append(calls, Call("get", <<>>, resp))
          /\ IF ~IsObject(resp)
             THEN /\ IF retryWhen(resp, attempt + 1)
                     THEN pc' = "get" /\ UNCHANGED <<result, err>>
                     ELSE Return("error", resp)
                  /\ attempt' = attempt + 1
                  /\ UNCHANGED <<gotVersion, patchVersion>>
             ELSE /\ attempt' = attempt + 1
                  /\ gotVersion' = version
                  /\ patchVersion' = SetPatchVersion(version, patchVersion)
                  /\ pc' = "patch"
                  /\ UNCHANGED <<result, err>>
    /\ UNCHANGED <<runVars, otherActs, dataVars, checkVars, prior, listVars, op, localVars, retryVars, sawGone, ccSnap, remoteVars, oldMembers, chunkIn>>

PatchResps ==
    IF remote # "active" THEN {"404", "500"}
    ELSE IF patchVersion # version THEN {"409", "500"}
    ELSE {"ok", "500"}

\* updateJourneyActionMap: the patch that closes an attempt
updateJourneyActionMapPatch ==
    /\ res = "actionMap" /\ op = "update" /\ pc = "patch"
    /\ \E resp \in PatchResps :
          /\ calls' = Append(calls, [api |-> "patch", ids |-> <<>>, resp |-> resp,
                                     ver |-> patchVersion, got |-> gotVersion])
          /\ IF resp = "ok"
             THEN /\ version' = version + 1
                  /\ rattr' = attr
                  /\ pc' = "read"
                  /\ UNCHANGED <<result, err>>
             ELSE /\ IF retryWhen(resp, attempt)
                     THEN pc' = "get" /\ UNCHANGED <<result, err>>
                     ELSE Return("error", resp)
                  /\ UNCHANGED <<version, rattr>>
    /\ UNCHANGED <<runVars, otherActs, dataVars, checkVars, prior, listVars, op, localVars, retryVars, lastGet, sawGone, ccSnap, remote, view,
                   rview, rmembers, oldMembers, updateVars, chunkIn>>

\* ------------------------------------------------------------------ Delete
StartDelete ==
    /\ Idle /\ id # ""
    /\ Begin("delete", "delete")
    /\ UNCHANGED <<localVars, prior>>

\* what the backend may answer to a delete call
DeleteResps == IF remote = "absent" THEN {"ok", "404", "500"} ELSE {"ok", "500"}

\* faulty variant: the delete call's error is not read
deleteErrMut(resp) == FALSE

\* err != nil after DeleteRoutingQueue / DeleteJourneyActionmap / DeleteJourneySegment
deleteErr(resp) == resp # "ok"

\* the delete call of deleteQueue / deleteJourneyActionMap / deleteJourneySegment
DeleteIssue ==
    /\ op = "delete" /\ pc = "delete"
    /\ \E resp \in DeleteResps :
          /\ calls' = Append(calls, Call("delete", <<>>, resp))
          /\ IF deleteErr(resp)
             THEN Return("error", resp) /\ UNCHANGED remote
             ELSE /\ pc' = "poll"
                  /\ UNCHANGED <<result, err>>
                  /\ \/ remote' = "absent"
                     \/ res = "segment" /\ remote = "active" /\ remote' = "inactive"
    /\ UNCHANGED <<runVars, otherActs, dataVars, checkVars, prior, listVars, op, localVars, retryVars, lastGet, sawGone, ccSnap, view, rattr,
                   rview, version, rmembers, oldMembers, updateVars,
                   chunkIn>>

\* one confirmation read of the delete's retry loop, and the engine's turn after
\* it; the provider SDK clears d.Id() when Delete returns without error
DeletePollAttempt ==
    /\ op = "delete" /\ pc = "poll"
    /\ \E resp \in GetResps :
          LET outcome == DeletePoll(res, resp)
              turn    == RetryContext(outcome, elapsed, DeleteDeadline(res))
          IN  /\ lastGet' = resp
              /\ calls' = Append(calls, Call("get", <<>>, resp))
              /\ sawGone' = (sawGone \/ resp \in {"404", "inactive"})
              /\ lastDisp' = outcome.kind
              /\ elapsed' = turn.elapsed
              /\ pc' = IF turn.pc = "retry" THEN "poll" ELSE "done"
              /\ result' = turn.result /\ err' = turn.err
              /\ id' = IF turn.result = "ok" THEN "" ELSE id
    /\ UNCHANGED <<runVars, otherActs, dataVars, checkVars, prior, listVars, op, attr, dMembers, cfgMembersSet, divChanged, ccSnap, remoteVars,
                   oldMembers, updateVars, chunkIn>>

\* ------------------------------------------------------------- environment
\* the backend's read view catches up with the object
Propagate ==
    /\ view # remote \/ rview # rattr
    /\ view' = remote /\ rview' = rattr
    /\ UNCHANGED <<runVars, otherActs, dataVars, checkVars, prior, listVars, op, pc, localVars, result, err, retryVars, lastGet, sawGone,
                   ccSnap, remote, rattr, version, rmembers, oldMembers, updateVars,
                   calls, chunkIn>>

\* another controller patches the same action map: its version moves on
OtherControllerPatch ==
    /\ res = "actionMap" /\ remote = "active"
    /\ version < MaxVersion - 1
    /\ version' = version + 1
    /\ UNCHANGED <<runVars, otherActs, dataVars, checkVars, prior, listVars, op, pc, localVars, result, err, retryVars, lastGet, sawGone,
                   ccSnap, remote, view, rattr, rview, rmembers, oldMembers, updateVars,
                   calls, chunkIn>>

Next ==
    \/ StartCreate \/ CreatePost \/ Finish
    \/ StartRead \/ readQueue \/ ReadAttempt
    \/ MembersList \/ MembersRemove \/ MembersAdd \/ MembersRing
    \/ StartUpdate \/ updateQueuePut \/ updateQueueDivision
    \/ updateJourneySegmentPatch
    \/ updateJourneyActionMapGet \/ updateJourneyActionMapPatch
    \/ StartDelete \/ DeleteIssue \/ DeletePollAttempt
    \/ Propagate \/ OtherControllerPatch

Spec == Init /\ [][Next]_vars

\* ---------------------------------------------- updateMembersInChunks alone
\* member lists of every length up to MaxChunkMembers, each handed to
\* updateMembersInChunks once
ChunkInit ==
    /\ res = "queue" /\ cfgScope = "members"
    /\ op = "chunks" /\ pc = "chunk"
    /\ id = RemoteId /\ attr = NoValue /\ dMembers = NoMembers
    /\ cfgMembersSet = FALSE /\ divChanged = FALSE
    /\ result = "none" /\ err = "none"
    /\ lastDisp = "none" /\ elapsed = 0 /\ lastGet = "none" /\ sawGone = FALSE
    /\ ccSnap = "none"
    /\ remote = "active" /\ view = "active" /\ rattr = NoValue /\ rview = NoValue
    /\ version = 1 /\ rmembers = NoMembers /\ oldMembers = NoMembers
    /\ gotVersion = 0 /\ attempt = 0 /\ patchVersion = 0
    /\ calls = <<>>
    /\ sharedLoopVar \in BOOLEAN
    /\ emptySetOk = FALSE
    /\ \E n \in 0..MaxChunkMembers : chunkIn = [i \in 1..n |-> i]
    /\ pageNum = 0 /\ pageCount = 0 /\ listed = {} /\ total = 0 /\ pastEnd = "empty"
    /\ prior = NoPrior
    /\ otherActs = <<>>
    /\ dsEntities = <<>> /\ dsVisible = TRUE
    /\ ccDesired = NoAttrs /\ ccObserved = NoAttrs /\ ccRuns = <<>>

ChunkRun ==
    /\ op = "chunks" /\ pc = "chunk"
    /\ \E remove \in BOOLEAN :
          calls' = ChunkCalls(updateMembersInChunks(chunkIn, sharedLoopVar), remove, "ok")
    /\ pc' = "done"
    /\ result' = IF updateMembersInChunksErr("ok") = "none" THEN "ok" ELSE "error"
    /\ UNCHANGED <<runVars, otherActs, dataVars, checkVars, prior, listVars, op, localVars, err, retryVars, lastGet, sawGone, ccSnap,
                   remoteVars, oldMembers, updateVars, chunkIn>>

ChunkNext == ChunkRun

ChunkSpec == ChunkInit /\ [][ChunkNext]_vars

\* ------------------------------------------------------- paginated listings
\* number of pages of the listed collection that hold entities
LastPage == (total + pageSize - 1) \div pageSize

\* the entities page p holds, in order: a page past the last is empty, or is the
\* last page again on a backend whose paging is broken
PageOf(p) ==
    LET q     == IF p > LastPage /\ pastEnd = "repeat" THEN LastPage ELSE p
        first == (q - 1) * pageSize + 1
        last  == Min(q * pageSize, total)
    IN  IF q < 1 \/ first > last THEN <<>>
        ELSE [i \in 1..(last - first + 1) |-> first + i - 1]

\* one page request: ids holds the page number asked for, ver the number of
\* entities the page returned, got the page count it reported
ListCall(resp, page) ==
    [api |-> "list", ids |-> <<pageNum>>, resp |-> resp, ver |-> Len(page), got |-> LastPage]

\* faulty variant: the entities collected so far are returned with the error
OnPageErrorMut(collected) == collected

\* return nil, diag.Errorf(...): the map built so far is dropped
OnPageError(collected) == {}

\* faulty variant: an empty page does not end the listing
EmptyPageMut(page) == FALSE

\* Entities == nil || len(*Entities) == 0
EmptyPage(page) == Len(page) = 0

\* faulty variant: the reported page count is not consulted
actionMapsLoopMut(pn, pcount) == TRUE

\* the loop condition of getAllJourneyActionMaps: pageNum <= pageCount
actionMapsLoop(pn, pcount) == pn <= pcount

\* one iteration of the loop of getAllJourneySegments
getAllJourneySegments ==
    /\ res = "segment" /\ op = "list" /\ pc = "page"
    /\ pageNum <= MaxPages
    /\ \E resp \in {"ok", "500"} :
          LET page == IF resp = "ok" THEN PageOf(pageNum) ELSE <<>>
          IN  /\ calls' = Append(calls, ListCall(resp, page))
              /\ IF resp # "ok"
                 THEN Return("error", resp) /\ listed' = OnPageError(listed)
                      /\ UNCHANGED pageNum
                 ELSE IF EmptyPage(page)
                 THEN Return("ok", "none") /\ UNCHANGED <<listed, pageNum>>
                 ELSE /\ listed' = listed \cup Range(page)
                      /\ pageNum' = pageNum + 1
                      /\ UNCHANGED <<pc, result, err>>
    /\ UNCHANGED <<runVars, otherActs, dataVars, checkVars, prior, op, localVars, retryVars, lastGet, sawGone, ccSnap, remoteVars,
                   oldMembers, updateVars, chunkIn, pageCount, total, pastEnd>>

\* one iteration of the loop of getAllJourneyActionMaps, up to the loop
\* condition that decides whether there is a next one
getAllJourneyActionMaps ==
    /\ res = "actionMap" /\ op = "list" /\ pc = "page"
    /\ pageNum <= MaxPages
    /\ \E resp \in {"ok", "500"} :
          LET page == IF resp = "ok" THEN PageOf(pageNum) ELSE <<>>
          IN  /\ calls' = Append(calls, ListCall(resp, page))
              /\ IF resp # "ok"
                 THEN /\ Return("error", resp) /\ listed' = OnPageError(listed)
                      /\ UNCHANGED <<pageNum, pageCount>>
                 ELSE IF EmptyPage(page)
                 THEN Return("ok", "none") /\ UNCHANGED <<listed, pageNum, pageCount>>
                 ELSE /\ listed' = listed \cup Range(page)
                      /\ pageCount' = LastPage
                      /\ pageNum' = pageNum + 1
                      /\ IF actionMapsLoop(pageNum + 1, LastPage)
                         THEN UNCHANGED <<pc, result, err>>
                         ELSE Return("ok", "none")
    /\ UNCHANGED <<runVars, otherActs, dataVars, checkVars, prior, op, localVars, retryVars, lastGet, sawGone, ccSnap, remoteVars,
                   oldMembers, updateVars, chunkIn, total, pastEnd>>

\* one iteration of the loop of getRoutingQueueMembers
getRoutingQueueMembers ==
    /\ res = "queue" /\ op = "list" /\ pc = "page"
    /\ pageNum <= MaxPages
    /\ \E resp \in {"ok", "500"} :
          LET page == IF resp = "ok" THEN PageOf(pageNum) ELSE <<>>
          IN  /\ calls' = Append(calls, ListCall(resp, page))
              /\ IF resp # "ok"
                 THEN Return("error", resp) /\ listed' = <<>> /\ UNCHANGED pageNum
                 ELSE IF EmptyPage(page)
                 THEN Return("ok", "none") /\ UNCHANGED <<listed, pageNum>>
                 ELSE /\ listed' = listed \o page
                      /\ pageNum' = pageNum + 1
                      /\ UNCHANGED <<pc, result, err>>
    /\ UNCHANGED <<runVars, otherActs, dataVars, checkVars, prior, op, localVars, retryVars, lastGet, sawGone, ccSnap, remoteVars,
                   oldMembers, updateVars, chunkIn, pageCount, total, pastEnd>>

\* a listing of a collection of up to MaxEntities objects, run once from page 1
ListInit ==
    /\ res \in Resources /\ cfgScope = "attributes"
    /\ op = "list" /\ pc = "page"
    /\ id = RemoteId /\ attr = NoValue /\ dMembers = NoMembers
    /\ cfgMembersSet = FALSE /\ divChanged = FALSE
    /\ result = "none" /\ err = "none"
    /\ lastDisp = "none" /\ elapsed = 0 /\ lastGet = "none" /\ sawGone = FALSE
    /\ ccSnap = "none"
    /\ remote = "active" /\ view = "active" /\ rattr = NoValue /\ rview = NoValue
    /\ version = 1 /\ rmembers = NoMembers /\ oldMembers = NoMembers
    /\ gotVersion = 0 /\ attempt = 0 /\ patchVersion = 0
    /\ calls = <<>>
    /\ sharedLoopVar = FALSE /\ emptySetOk = FALSE
    /\ chunkIn = <<>>
    /\ pageNum = 1 /\ pageCount = 1
    /\ listed = IF res = "queue" THEN <<>> ELSE {}
    /\ total \in 0..MaxEntities
    /\ pastEnd \in (IF res = "actionMap" THEN {"empty", "repeat"} ELSE {"empty"})
    /\ prior = NoPrior
    /\ otherActs = <<>>
    /\ dsEntities = <<>> /\ dsVisible = TRUE
    /\ ccDesired = NoAttrs /\ ccObserved = NoAttrs /\ ccRuns = <<>>

ListNext == getAllJourneySegments \/ getAllJourneyActionMaps \/ getRoutingQueueMembers

ListSpec == ListInit /\ [][ListNext]_vars

\* ------------------------------------------------- consistency checker alone
\* every Desired/Observed pair over AttrNames, checked up to MaxChecks times
CheckInit ==
    /\ res \in {"actionMap", "segment"} /\ cfgScope = "attributes"
    /\ op = "check" /\ pc = "check"
    /\ id = RemoteId /\ attr = NoValue /\ dMembers = NoMembers
    /\ cfgMembersSet = FALSE /\ divChanged = FALSE
    /\ result = "none" /\ err = "none"
    /\ lastDisp = "none" /\ elapsed = 0 /\ lastGet = "none" /\ sawGone = FALSE
    /\ ccSnap = "none"
    /\ remote = "active" /\ view = "active" /\ rattr = NoValue /\ rview = NoValue
    /\ version = 1 /\ rmembers = NoMembers /\ oldMembers = NoMembers
    /\ gotVersion = 0 /\ attempt = 0 /\ patchVersion = 0
    /\ calls = <<>>
    /\ sharedLoopVar = FALSE /\ emptySetOk = FALSE
    /\ chunkIn = <<>>
    /\ pageNum = 0 /\ pageCount = 0 /\ listed = {} /\ total = 0 /\ pastEnd = "empty"
    /\ prior = NoPrior
    /\ otherActs = <<>>
    /\ dsEntities = <<>> /\ dsVisible = TRUE
    /\ ccDesired \in [AttrNames -> AttrVals \cup {NoValue}]
    /\ ccObserved \in [AttrNames -> AttrVals \cup {NoValue}]
    /\ ccRuns = <<>>

\* one cc.CheckState() call
CheckStateRun ==
    /\ op = "check" /\ pc = "check"
    /\ Len(ccRuns) < MaxChecks
    /\ LET verdict == CheckStateOver(AttrNames, ccDesired, ccObserved)
       IN  /\ ccRuns' = Append(ccRuns, [desired |-> ccDesired, observed |-> ccObserved,
                                        verdict |-> verdict])
           /\ lastDisp' = verdict.kind
    /\ ccDesired' = DesiredAfterCheck(ccDesired, ccObserved)
    /\ UNCHANGED <<runVars, otherActs, dataVars, prior, listVars, op, pc, localVars, result, err, elapsed,
                   lastGet, sawGone, ccSnap, remoteVars, oldMembers, updateVars, calls,
                   chunkIn, ccObserved>>

CheckNext == CheckStateRun

CheckSpec == CheckInit /\ [][CheckNext]_vars

\* ------------------------------------- reconciliation beside another actor
\* another actor (a second controller, an administrator) adds a user to the
\* queue or removes one while updateQueueMembers is running; the core takes no
\* lock, so this may happen between any two of its calls
OtherActorChangesMembers ==
    /\ res = "queue" /\ op = "update"
    /\ pc \in Range(MemberSteps) \cup {"members"}
    /\ Len(otherActs) < MaxOtherActs
    /\ \E u \in Users :
          /\ rmembers' = [rmembers EXCEPT ![u] = IF rmembers[u] = 0 THEN DefaultRingNum ELSE 0]
          /\ otherActs' = Append(otherActs, [at |-> pc, user |-> u])
    /\ UNCHANGED <<runVars, dataVars, checkVars, prior, listVars, op, pc, localVars, result, err,
                   retryVars, lastGet, sawGone, ccSnap, remote, view, rattr, rview, version,
                   oldMembers, updateVars, calls, chunkIn>>

\* updateQueue at its call of updateQueueMembers, for every configured member
\* set and every remote member set with default ring numbers
RaceInit ==
    /\ res = "queue" /\ cfgScope = "members"
    /\ op = "update" /\ pc = "members"
    /\ id = RemoteId /\ attr = NoValue
    /\ dMembers \in MemberMaps /\ cfgMembersSet = TRUE /\ divChanged = FALSE
    /\ result = "none" /\ err = "none"
    /\ lastDisp = "none" /\ elapsed = 0 /\ lastGet = "none" /\ sawGone = FALSE
    /\ ccSnap = "none"
    /\ remote = "active" /\ view = "active" /\ rattr = NoValue /\ rview = NoValue
    /\ version = 1
    /\ rmembers \in [Users -> {0, DefaultRingNum}]
    /\ oldMembers = NoMembers
    /\ gotVersion = 0 /\ attempt = 0 /\ patchVersion = 0
    /\ calls = <<>>
    /\ sharedLoopVar = FALSE /\ emptySetOk = FALSE
    /\ chunkIn = <<>>
    /\ pageNum = 0 /\ pageCount = 0 /\ listed = {} /\ total = 0 /\ pastEnd = "empty"
    /\ prior = NoPrior
    /\ otherActs = <<>>
    /\ dsEntities = <<>> /\ dsVisible = TRUE
    /\ ccDesired = NoAttrs /\ ccObserved = NoAttrs /\ ccRuns = <<>>

RaceNext ==
    \/ MembersList \/ MembersRemove \/ MembersAdd \/ MembersRing
    \/ OtherActorChangesMembers

RaceSpec == RaceInit /\ [][RaceNext]_vars

\* ------------------------------------------------------ by-name data source
\* d.Get("name") of the data source
RequestedName == "n"
EntityNames == {RequestedName, "other", "none"}
EntityStates == {"active", "deleted", "none"}
Entities == [name : EntityNames, state : EntityStates]

\* the identifier the remote system gave the i-th entity
EntityId(i) == <<"e1", "e2", "e3", "e4", "e5", "e6">>[i]

\* the entities page p of the collection holds, as positions in dsEntities
DataPage(p) ==
    IF ~dsVisible THEN {}
    ELSE {i \in 1..Len(dsEntities) : (i - 1) \div DataPageLen + 1 = p}

\* faulty variant: the entity's state is not looked at
IsMatchMut(e, name) == e.name # "none" /\ e.name = name

\* Name != nil && *Name == name && State != nil && *State != "deleted"
IsMatch(e, name) ==
    /\ e.name # "none" /\ e.name = name
    /\ e.state # "none" /\ e.state # "deleted"

\* one page request of the closure dataSourceTrunkBaseSettingsRead hands to
\* withRetries, and the retry engine's turn when the request ends the attempt
dataSourceTrunkBaseSettingsRead ==
    /\ op = "data" /\ pc = "page"
    /\ pageNum <= MaxPages
    /\ \E resp \in {"ok", "500"} :
          LET page    == IF resp = "ok" THEN DataPage(pageNum) ELSE {}
              matches == {i \in page : IsMatch(dsEntities[i], RequestedName)}
              first   == CHOOSE i \in matches : \A j \in matches : i <= j
              ends    == resp # "ok" \/ page = {} \/ matches # {}
              outcome == IF resp # "ok" THEN NonRetryableError(resp)
                         ELSE IF page = {} THEN RetryableError("notfound")
                         ELSE Success
              turn    == RetryContext(outcome, elapsed, DataSourceTimeout)
          IN  /\ calls' = Append(calls, [api |-> "list", ids |-> <<pageNum>>, resp |-> resp,
                                         ver |-> Cardinality(page), got |-> 0])
              /\ IF ~ends
                 THEN /\ pageNum' = pageNum + 1
                      /\ UNCHANGED <<id, pc, result, err, retryVars>>
                 ELSE /\ id' = IF matches # {} THEN SetId(EntityId(first)) ELSE id
                      /\ lastDisp' = outcome.kind
                      /\ elapsed' = turn.elapsed
                      /\ pc' = IF turn.pc = "retry" THEN "page" ELSE "done"
                      /\ result' = turn.result /\ err' = turn.err
                      /\ pageNum' = IF turn.pc = "retry" THEN 1 ELSE pageNum
    /\ UNCHANGED <<runVars, otherActs, checkVars, prior, op, attr, dMembers, cfgMembersSet, divChanged,
                   lastGet, sawGone, ccSnap, remoteVars, oldMembers, updateVars, chunkIn,
                   pageCount, listed, total, pastEnd, dataVars>>

\* the listing endpoint catches up with the collection
DataPropagate ==
    /\ op = "data" /\ ~dsVisible
    /\ dsVisible' = TRUE
    /\ UNCHANGED <<runVars, otherActs, checkVars, prior, listVars, op, pc, localVars, result, err,
                   retryVars, lastGet, sawGone, ccSnap, remoteVars, oldMembers, updateVars,
                   calls, chunkIn, dsEntities>>

\* a data source read over every collection of up to MaxDataEntities entities
DataInit ==
    /\ res = "queue" /\ cfgScope = "attributes"
    /\ op = "data" /\ pc = "page"
    /\ id = "" /\ attr = NoValue /\ dMembers = NoMembers
    /\ cfgMembersSet = FALSE /\ divChanged = FALSE
    /\ result = "none" /\ err = "none"
    /\ lastDisp = "none" /\ elapsed = 0 /\ lastGet = "none" /\ sawGone = FALSE
    /\ ccSnap = "none"
    /\ remote = "absent" /\ view = "absent" /\ rattr = NoValue /\ rview = NoValue
    /\ version = 0 /\ rmembers = NoMembers /\ oldMembers = NoMembers
    /\ gotVersion = 0 /\ attempt = 0 /\ patchVersion = 0
    /\ calls = <<>>
    /\ sharedLoopVar = FALSE /\ emptySetOk = FALSE
    /\ chunkIn = <<>>
    /\ pageNum = 1 /\ pageCount = 0 /\ listed = {} /\ total = 0 /\ pastEnd = "empty"
    /\ prior = NoPrior
    /\ otherActs = <<>>
    /\ ccDesired = NoAttrs /\ ccObserved = NoAttrs /\ ccRuns = <<>>
    /\ \E n \in 0..MaxDataEntities : dsEntities \in [1..n -> Entities]
    /\ dsVisible \in BOOLEAN

DataNext == dataSourceTrunkBaseSettingsRead \/ DataPropagate

DataSpec == DataInit /\ [][DataNext]_vars

\* =================================================================== claims
LastCall == calls[Len(calls)]
Gets == {i \in 1..Len(calls) : calls[i].api = "get"}
DeleteDone == op = "delete" /\ pc = "done" /\ lastGet # "none"

\* C1 (as claimed): for every resource type a 404 answered to the Read that ends
\* Create is retried; Create returns that 404 only once the read deadline has elapsed.
C1_Create404Retried ==
    (op = "create" /\ pc = "done" /\ result = "error"
        /\ lastGet = "404" /\ LastCall.api = "get")
    => elapsed >= ReadTimeout

\* C2: once the delete call succeeded, a confirmation read answering 404 ends
\* Delete without error, at whichever poll it comes.
C2_Delete404IsSuccess ==
    (DeleteDone /\ lastGet = "404") => (result = "ok" /\ err = "none")

C2_Witness ==
    DeleteDone /\ lastGet = "404" /\ result = "ok" /\ elapsed > 0 /\ res = "queue"

\* C3: Delete returns success only if a confirmation read saw the object gone
\* (404) or inactive; when the last poll before the deadline still finds it
\* present and active, Delete ends in an error.
C3_DeleteSuccessOnlyIfGone ==
    DeleteDone =>
        /\ result = "ok" => (sawGone /\ lastGet \in {"404", "inactive"})
        /\ lastGet = "found" => (result = "error" /\ err = "exists")

C3_Witness ==
    DeleteDone /\ res = "segment" /\ lastGet = "found" /\ result = "error"
        /\ ~sawGone /\ Cardinality(Gets) > 1

\* C4: retryable failures that stay short of the deadline and are followed by a
\* success end in success: a poll loop that saw k "still exists" answers and then
\* a 404 returns success after k sleeps, and the loop gives up on "still exists"
\* only when its answers fill the deadline.
C4_RetryReachesSuccess ==
    DeleteDone =>
        /\ lastGet = "404" =>
              (result = "ok" /\ elapsed = (Cardinality(Gets) - 1) * PollInterval)
        /\ (result = "error" /\ lastGet = "found") =>
              Cardinality(Gets) * PollInterval >= DeleteDeadline(res)

C4_Witness ==
    DeleteDone /\ res = "actionMap" /\ result = "ok" /\ lastGet = "404"
        /\ Cardinality(Gets) = 3

\* C5: a loop whose operation only returns retryable failures ends in an error
\* carrying the last retryable reason exactly when the deadline elapses: the
\* operation is invoked only before the deadline, and the error comes at the
\* first tick at or after it.
C5_TimeoutExactlyAtDeadline ==
    /\ (op = "delete" /\ pc = "poll") =>
          elapsed < (IF res = "queue" THEN QueueDeleteTimeout ELSE DeleteTimeout)
    /\ (DeleteDone /\ res = "queue" /\ lastDisp = "retryable") =>
          /\ result = "error" /\ err = "exists"
          /\ elapsed >= QueueDeleteTimeout
          /\ elapsed - PollInterval < QueueDeleteTimeout

C5_Witness ==
    DeleteDone /\ res = "queue" /\ lastDisp = "retryable" /\ result = "error"
        /\ elapsed >= QueueDeleteTimeout

CallsOf(api) == {i \in 1..Len(calls) : calls[i].api = api}
IdsSent(api) == UNION {Range(calls[i].ids) : i \in CallsOf(api)}
BatchCalls == CallsOf("removeMembers") \cup CallsOf("addMembers")

\* a reconciliation of configured members has issued its batch calls (or returned
\* without any); O is the remote member set it started from, N the configured one
Reconciled ==
    /\ res = "queue" /\ op \in {"create", "update"} /\ cfgMembersSet
    /\ pc \in {"m_ring", "read"}
ReconciledOld ==
    IF CallsOf("listMembers") = {} THEN MemberSet(rmembers) ELSE MemberSet(oldMembers)
ReconciledNew == MemberSet(dMembers)

\* C6 (as claimed): reconciliation is a set difference: the members sent for
\* removal are exactly O \ N, the members sent for addition exactly N \ O.
C6_SetDifference ==
    Reconciled =>
        /\ IdsSent("removeMembers") = ReconciledOld \ ReconciledNew
        /\ IdsSent("addMembers") = ReconciledNew \ ReconciledOld

RECURSIVE ConcatIds(_)
ConcatIds(cs) == IF cs = <<>> THEN <<>> ELSE Head(cs).ids \o ConcatIds(Tail(cs))

\* C7 (as claimed): n members are sent in ceil(n / 100) calls of at most 100
\* members each, and the ids the calls carry, in call order, are the original list.
C7_Chunking ==
    (op = "chunks" /\ pc = "done") =>
        /\ Len(calls) = (Len(chunkIn) + maxBatchSize - 1) \div maxBatchSize
        /\ \A i \in 1..Len(calls) : Len(calls[i].ids) <= maxBatchSize
        /\ ConcatIds(calls) = chunkIn

\* C8: within one reconciliation every removal batch precedes every addition
\* batch, and every ring-number update follows all addition batches.
C8_RemoveAddRingOrder ==
    \A i, j \in 1..Len(calls) :
        i < j =>
            /\ ~(calls[i].api = "addMembers" /\ calls[j].api = "removeMembers")
            /\ ~(calls[i].api = "patchMember"
                    /\ calls[j].api \in {"addMembers", "removeMembers"})

C8_Witness ==
    /\ CallsOf("removeMembers") # {} /\ CallsOf("addMembers") # {}
    /\ CallsOf("patchMember") # {}
    /\ op = "update" /\ pc = "done" /\ result = "ok"

\* C9 (as claimed): a failed add/remove batch call is terminal: it is the last
\* call of the Create/Update, which returns an error.
C9_BatchErrorTerminal ==
    \A i \in BatchCalls :
        calls[i].resp # "ok" => (i = Len(calls) /\ pc = "done" /\ result = "error")

\* the calls of updateJourneyActionMap's retryWhen run: those up to the patch
\* that succeeded, all of them when none did
UpdatePhase ==
    LET ok == {i \in CallsOf("patch") : calls[i].resp = "ok"}
    IN  IF ok = {} THEN 1..Len(calls) ELSE {i \in 1..Len(calls) : \A k \in ok : i <= k}

\* C10: every patch of an action-map Update carries the version the get of the
\* same attempt returned; a patch rejected for its version is followed by a new
\* get (never by another patch), and any other error is the Update's last call.
C10_PatchCarriesFreshVersion ==
    (res = "actionMap" /\ op = "update") =>
        \A i \in UpdatePhase :
            /\ calls[i].api = "patch" =>
                  /\ calls[i].ver = calls[i].got
                  /\ i > 1 /\ calls[i - 1].api = "get" /\ calls[i - 1].resp = "found"
            /\ (calls[i].api = "patch" /\ calls[i].resp = "409" /\ i < Len(calls)) =>
                  calls[i + 1].api = "get"
            /\ calls[i].resp \in {"404", "500"} =>
                  (i = Len(calls) /\ pc = "done" /\ result = "error")

C10_Witness ==
    /\ res = "actionMap" /\ op = "update"
    /\ \E i, j \in CallsOf("patch") :
          /\ i < j /\ calls[i].resp = "409" /\ calls[j].resp = "ok"
          /\ calls[j].ver > calls[i].ver

ListDone == op = "list" /\ pc = "done"
ListedSet == IF res = "queue" THEN Range(listed) ELSE listed

\* C11: a listing asks for page 1, 2, 3, ... in turn; the first page that returns
\* no entity is its last request; on a backend whose pages past the last are
\* empty it asks for no page after the first empty one and, when it returns
\* without error, has collected exactly the entities of the pages before it.
C11_ListingStopsAtEmptyPage ==
    op = "list" =>
        /\ \A i \in 1..Len(calls) :
              /\ calls[i].ids = <<i>>
              /\ (calls[i].resp = "ok" /\ calls[i].ver = 0) => (i = Len(calls) /\ pc = "done")
              /\ pastEnd = "empty" => i <= LastPage + 1
        /\ (ListDone /\ result = "ok" /\ pastEnd = "empty") =>
              /\ ListedSet = 1..total
              /\ res = "queue" => listed = [i \in 1..total |-> i]

C11_Witness ==
    /\ ListDone /\ res = "segment" /\ result = "ok" /\ total = 3 * pageSize
    /\ Len(calls) = 4 /\ calls[4].ver = 0 /\ listed = 1..300

\* C12: the action-map listing asks for a page only when its number is at most
\* the page count the page before it reported, so it makes at most that many
\* requests, also on a backend that never returns an empty page.
C12_PageCountBoundsListing ==
    (res = "actionMap" /\ op = "list") =>
        /\ \A i \in 2..Len(calls) : calls[i].ids[1] <= calls[i - 1].got
        /\ pc = "page" => pageNum <= pageCount
        /\ Len(calls) <= (IF LastPage = 0 THEN 1 ELSE LastPage)

C12_Witness ==
    /\ ListDone /\ res = "actionMap" /\ pastEnd = "repeat" /\ result = "ok"
    /\ total = 3 * pageSize /\ Len(calls) = 3 /\ calls[3].ver > 0 /\ listed = 1..300

\* C13: a create call that returned an error is the only call of the Create,
\* which ends in an error with no identifier stored: no second create call, no
\* membership reconciliation, no Read.
C13_CreateErrorTerminal ==
    (op = "create" /\ calls # <<>> /\ calls[1].resp # "ok") =>
        /\ calls[1].api = "post" /\ Len(calls) = 1
        /\ pc = "done" /\ result = "error" /\ err = calls[1].resp
        /\ id = ""

C13_Witness ==
    /\ op = "create" /\ pc = "done" /\ res = "queue" /\ cfgMembersSet
    /\ MemberSet(dMembers) # {}
    /\ Len(calls) = 1 /\ calls[1].api = "post" /\ calls[1].resp = "500" /\ id = ""

\* what the provider SDK persists of d when a handler returns: nothing while
\* the identifier is empty, else the identifier with d's attribute values
Stored(i, a) == IF i = "" THEN <<>> ELSE <<i, a>>

\* C14 (as claimed): after a Create or Update that ended in an error, the stored
\* identifier and attribute value are the ones stored when the operation was called.
C14_FailedOpKeepsState ==
    (op \in {"create", "update"} /\ pc = "done" /\ result = "error") =>
        Stored(id, attr) = Stored(prior.id, prior.attr)

\* C15: the stored identifier is empty or the identifier the remote system
\* assigned to the object it created.
C15_IdOnlyFromRemote ==
    id # "" => (id = RemoteId /\ version >= 1)

C15_Witness ==
    op = "create" /\ pc = "done" /\ result = "ok" /\ id = RemoteId /\ res = "actionMap"

C17_ReadReplacesObservation ==
    [][(pc = "read" /\ pc' = "done" /\ result' = "ok" /\ id' # "") =>
          (attr' = rview /\ (res = "queue" => dMembers' = rmembers))]_vars

\* C18: a get that answers an error other than 404 is the last call of its
\* operation, which ends at that attempt with that error: in the retry loop of
\* Read and in the confirmation poll of Delete no further attempt is made.
C18_Non404ReadErrorTerminal ==
    \A i \in Gets :
        calls[i].resp = "500" =>
            /\ i = Len(calls) /\ pc = "done"
            /\ result = "error" /\ err = "500"
            /\ lastDisp \in {"nonretryable", "none"}

C18_Witness ==
    /\ res = "actionMap" /\ op = "read" /\ pc = "done" /\ result = "error"
    /\ Len(calls) = 2 /\ calls[1].resp = "404" /\ calls[2].resp = "500"
    /\ elapsed = PollInterval /\ elapsed < ReadTimeout

\* C19: a delete call that returned an error is the only call of the Delete,
\* which ends in an error at once: no confirmation read is made and the stored
\* identifier stays.
C19_DeleteCallErrorTerminal ==
    (op = "delete" /\ calls # <<>> /\ calls[1].resp # "ok") =>
        /\ calls[1].api = "delete" /\ Len(calls) = 1
        /\ pc = "done" /\ result = "error" /\ err = calls[1].resp
        /\ id = RemoteId /\ elapsed = 0

C19_Witness ==
    /\ op = "delete" /\ pc = "done" /\ res = "queue" /\ remote = "active"
    /\ Len(calls) = 1 /\ calls[1].resp = "500" /\ result = "error" /\ id = RemoteId

\* a read attempt of a journey resource fetched an active object and ran the
\* consistency check on it
Checked ==
    /\ res # "queue" /\ op \in {"create", "update", "read"}
    /\ lastDisp # "none" /\ lastGet = "found"

\* C20: when a configured attribute disagrees with the value just read, the
\* attempt is a retryable failure: before the deadline the read is made again,
\* at the deadline the Read ends in an error naming the mismatch; an attempt on
\* which every configured attribute agrees ends the Read in success.
C20_MismatchRetriedUntilDeadline ==
    Checked =>
        IF ccSnap = NoValue \/ ccSnap = attr
        THEN pc = "done" /\ result = "ok" /\ lastDisp = "success"
        ELSE /\ lastDisp = "retryable"
             /\ IF elapsed < ReadTimeout
                THEN pc = "read" /\ result = "none"
                ELSE pc = "done" /\ result = "error" /\ err = "mismatch"

C20_Witness ==
    /\ Checked /\ op = "update" /\ pc = "done" /\ result = "ok"
    /\ ccSnap # NoValue /\ elapsed > 0
    /\ \A i \in Gets : calls[i].resp = "found"

C20_WitnessDeadline ==
    /\ Checked /\ pc = "done" /\ result = "error" /\ err = "mismatch"
    /\ elapsed >= ReadTimeout

\* C21: an attribute unset in the Desired snapshot takes no part in the check:
\* whatever the observed value of such an attribute, every verdict is the one
\* CheckState gives over the remaining attributes alone.
C21_UnsetAttributeExcluded ==
    \A k \in AttrNames :
        ccDesired[k] = NoValue =>
            \A i \in 1..Len(ccRuns) :
                ccRuns[i].verdict =
                    CheckStateOver(AttrNames \ {k}, ccRuns[i].desired, ccRuns[i].observed)

C21_Witness ==
    /\ ccRuns # <<>>
    /\ ccDesired["description"] = NoValue /\ ccObserved["description"] = "a"
    /\ ccDesired["color"] = "b" /\ ccObserved["color"] = "b"
    /\ ccDesired["scope"] = NoValue /\ ccObserved["scope"] = NoValue
    /\ ccRuns[1].verdict = Success

C23_DeleteIdempotent ==
    (op = "delete" /\ pc = "done" /\ remote = "absent"
        /\ \A i \in 1..Len(calls) : calls[i].resp \in {"ok", "404"}) =>
        (result = "ok" /\ id = "")

\* the calls membership reconciliation makes: the listing of old members, the
\* batches and the ring-number patches (the Read's own listing follows a get)
ReconcileCalls ==
    {i \in 1..Len(calls) :
        \/ calls[i].api \in {"removeMembers", "addMembers", "patchMember"}
        \/ calls[i].api = "listMembers" /\ (i = 1 \/ calls[i - 1].api # "get")}

\* C24 (as claimed): when the configuration does not set members, a queue Create
\* or Update makes no reconciliation call: no member listing, no batch, no
\* ring-number update.
C24_UnsetMembersNoCalls ==
    (res = "queue" /\ op \in {"create", "update"} /\ ~cfgMembersSet) =>
        ReconcileCalls = {}

\* C25: a listing issues list calls only and changes nothing remote; a page
\* error ends it with that error and without any of the entities collected.
C25_ListingReadOnly ==
    /\ [](op = "list" =>
            /\ \A i \in 1..Len(calls) : calls[i].api = "list"
            /\ \A i \in 1..Len(calls) :
                  calls[i].resp # "ok" =>
                      /\ i = Len(calls) /\ ListDone
                      /\ result = "error" /\ err = calls[i].resp
                      /\ ListedSet = {})
    /\ [][UNCHANGED <<total, pastEnd, remoteVars>>]_vars

C25_Witness ==
    /\ ListDone /\ res = "segment" /\ result = "error" /\ Len(calls) = 3
    /\ calls[2].ver = pageSize /\ calls[3].resp = "500" /\ listed = {}

\* the entities the claim counts as a match: the requested name, not deleted
ClaimMatches ==
    {i \in 1..Len(dsEntities) :
        dsEntities[i].name = RequestedName /\ dsEntities[i].state # "deleted"}

\* C26: the data source's identifier is set only by a read that succeeds, and
\* then to the identifier of an entity with exactly the requested name and a
\* state other than "deleted"; when no entity matches, the read is retried while
\* the deadline has not passed and then fails with the identifier unset.
C26_DataSourceByName ==
    op = "data" =>
        /\ id # "" <=> (pc = "done" /\ result = "ok")
        /\ id # "" => \E i \in ClaimMatches : id = EntityId(i)
        /\ ClaimMatches = {} =>
              /\ pc = "page" => elapsed < DataSourceTimeout
              /\ pc = "done" =>
                    /\ result = "error" /\ id = ""
                    /\ err = "notfound" => elapsed >= DataSourceTimeout

C26_Witness ==
    /\ op = "data" /\ pc = "done" /\ result = "ok" /\ id = "e3"
    /\ dsEntities[1] = [name |-> RequestedName, state |-> "deleted"]
    /\ dsEntities[2].name = "other"
    /\ Len(calls) = 2

C26_WitnessDeadline ==
    /\ op = "data" /\ pc = "done" /\ result = "error" /\ err = "notfound"
    /\ ClaimMatches = {} /\ dsEntities # <<>> /\ elapsed >= DataSourceTimeout

\* the listing of old members has been made in this operation
Listed == \E i \in CallsOf("listMembers") : calls[i].resp = "ok"
PatchCallsFor(u) == {i \in CallsOf("patchMember") : calls[i].ids = <<u>>}
ChangedRing == {u \in Users : oldMembers[u] # 0 /\ dMembers[u] # 0 /\ dMembers[u] # oldMembers[u]}
NewNonDefault == {u \in Users : oldMembers[u] = 0 /\ dMembers[u] \notin {0, DefaultRingNum}}
Unchanged == {u \in Users : oldMembers[u] # 0 /\ dMembers[u] = oldMembers[u]}

\* the operation is inside updateQueueMembers, or has just left it: the final
\* read has not yet replaced the configured members held in d
Reconciling ==
    \/ pc \in Range(MemberSteps) \cup {"read"}
    \/ pc = "done" /\ calls # <<>> /\ LastCall.api = "patchMember"

\* C27: during reconciliation a ring-number update is issued, once, only for a
\* configured member that was listed with another ring number or that is new
\* with a ring number other than 1; when the ring loop has run to its end
\* every such member has received one; a member in both sets with the same
\* ring number is named by no call.
C27_RingUpdateRule ==
    (res = "queue" /\ op \in {"create", "update"} /\ Reconciling) =>
        /\ \A u \in Patched : u \in ChangedRing \cup NewNonDefault /\ Cardinality(PatchCallsFor(u)) = 1
        /\ (Listed /\ pc = "read") => Patched = ChangedRing \cup NewNonDefault
        /\ Listed => \A u \in Unchanged :
              u \notin IdsSent("patchMember") \cup IdsSent("addMembers") \cup IdsSent("removeMembers")

C27_Witness ==
    /\ res = "queue" /\ op = "update" /\ pc = "read" /\ Listed
    /\ ChangedRing = {"u1"} /\ NewNonDefault = {"u2"} /\ Unchanged = {"u3"}
    /\ Patched = {"u1", "u2"}

\* the calls of updateQueueMembers that make it return an error
FailedReconcile ==
    {i \in ReconcileCalls : calls[i].api \in {"listMembers", "patchMember"} /\ calls[i].resp # "ok"}

\* C28: when queue Create's reconciliation fails after a successful create call,
\* Create ends with that error, the identifier the remote system assigned is
\* stored, no Read has been made, and the created queue exists remotely.
C28_CreateKeepsIdOnMembersError ==
    (res = "queue" /\ op = "create" /\ FailedReconcile # {}) =>
        /\ FailedReconcile = {Len(calls)}
        /\ pc = "done" /\ result = "error" /\ err = LastCall.resp
        /\ calls[1].api = "post" /\ calls[1].resp = "ok"
        /\ prior.id = "" /\ id = RemoteId
        /\ CallsOf("get") = {}
        /\ remote = "active"

C28_Witness ==
    /\ res = "queue" /\ op = "create" /\ pc = "done" /\ result = "error"
    /\ LastCall.api = "patchMember" /\ LastCall.resp = "500"
    /\ CallsOf("addMembers") # {}
    /\ id = RemoteId /\ remote = "active"

\* position of a call in the order of updateQueue's steps
StepRank(i) ==
    CASE calls[i].api = "put" -> 1
      [] calls[i].api = "division" -> 2
      [] calls[i].api \in {"removeMembers", "addMembers", "patchMember"} -> 3
      [] calls[i].api = "listMembers" -> IF i > 1 /\ calls[i - 1].api = "get" THEN 4 ELSE 3
      [] calls[i].api = "get" -> 4
      [] OTHER -> 0

\* the calls whose failure makes a step of updateQueue before the Read fail
FailedStep ==
    {i \in 1..Len(calls) :
        /\ calls[i].resp # "ok"
        /\ calls[i].api \in {"put", "division"} \/ i \in FailedReconcile}

\* C29: queue Update calls put-queue first, moves the division next and only
\* when division_id changed, then reconciles the members, then reads; a failed
\* step is the last thing the Update does and its error is the Update's; what
\* the put wrote stays written when a later step fails.
C29_UpdateStepOrder ==
    (res = "queue" /\ op = "update") =>
        /\ calls # <<>> => calls[1].api = "put"
        /\ \A i, j \in 1..Len(calls) : i < j => StepRank(i) <= StepRank(j)
        /\ Cardinality(CallsOf("put")) <= 1 /\ Cardinality(CallsOf("division")) <= 1
        /\ CallsOf("division") # {} => divChanged
        /\ (pc = "members" \/ \E i \in 1..Len(calls) : StepRank(i) > 2)
              => (divChanged => \E i \in CallsOf("division") : calls[i].resp = "ok")
        /\ \A i \in 1..Len(calls) : StepRank(i) > 1 => calls[1].resp = "ok"
        /\ \A i \in FailedStep :
              /\ i = Len(calls)
              /\ pc = "done" /\ result = "error" /\ err = calls[i].resp
        /\ (Len(calls) > 1 /\ CallsOf("get") = {}) => rattr = attr

C29_Witness ==
    /\ res = "queue" /\ op = "update" /\ pc = "done" /\ result = "error"
    /\ Len(calls) = 2 /\ LastCall.api = "division" /\ LastCall.resp = "500"
    /\ attr # prior.attr /\ rattr = attr

\* C30: reconciliation lists the remote members once and computes every
\* removal and addition from that listing and the configuration, whatever
\* another actor has done to the queue since; it ends without error whenever
\* none of its own listing or ring-number calls failed, so it can end in
\* success with remote members that are not the configured ones.
C30_ReconcileUsesOneListing ==
    (res = "queue" /\ op = "update") =>
        /\ Cardinality(CallsOf("listMembers") \cap ReconcileCalls) <= 1
        /\ IdsSent("removeMembers") \subseteq MemberSet(oldMembers) \ MemberSet(dMembers)
        /\ IdsSent("addMembers") \subseteq MemberSet(dMembers) \ MemberSet(oldMembers)
        /\ pc \in {"m_ring", "read"} =>
              /\ IdsSent("removeMembers") = MemberSet(oldMembers) \ MemberSet(dMembers)
              /\ IdsSent("addMembers") = MemberSet(dMembers) \ MemberSet(oldMembers)
        /\ pc = "read" <=> (pc \notin Range(MemberSteps) \cup {"members"} /\ FailedReconcile = {})
        /\ pc = "read" => result = "none" /\ err = "none"

C30_Witness ==
    /\ res = "queue" /\ op = "update" /\ pc = "read" /\ result = "none"
    /\ Listed
    /\ \A i \in 1..Len(calls) : calls[i].resp = "ok"
    /\ Len(otherActs) = 1 /\ otherActs[1].at \in {"m_remove", "m_add"}
    /\ MemberSet(rmembers) # MemberSet(dMembers)

====
